---- MODULE Spec2Model ----
(***************************************************************************)
(* A model of feed_generators/openai_eng_blog.py: the fallback date        *)
(* resolver, the article extractor, the feed assembler and the pipeline    *)
(* driver with its browser session.                                        *)
(*                                                                         *)
(* Python values are modelled as follows.  A str is a TLA+ string.  None   *)
(* or "no such element" is the empty sequence <<>> and a present value v   *)
(* is <<v>>.  A datetime is a record of its calendar fields and its tzinfo *)
(* ("naive" or "UTC").  A raised exception is the name of its class.       *)
(***************************************************************************)
EXTENDS Integers, Sequences, FiniteSets, TLC

VARIABLES
    \* the interpreter process and the fallback dates it has handed out
    pyhash, proc, fallback_log,
    \* parse_openai_eng_html
    cards, idx, articles, seen_links, outcomes, origin, ppc,
    \* generate_rss_feed
    feed_in, sorted_articles, feed_entries, fpc,
    \* main and fetch_news_content_selenium
    mpc, driver, quit_calls, pending, html_content, main_articles, feed,
    artifact, saves, trace, page_source,
    \* the logging sink
    log

vars == <<pyhash, proc, fallback_log,
          cards, idx, articles, seen_links, outcomes, origin, ppc,
          feed_in, sorted_articles, feed_entries, fpc,
          mpc, driver, quit_calls, pending, html_content, main_articles, feed,
          artifact, saves, trace, page_source, log>>

resolverVars == <<proc, fallback_log>>
parseVars == <<cards, idx, articles, seen_links, outcomes, origin, ppc>>
feedVars == <<feed_in, sorted_articles, feed_entries, fpc>>
mainVars == <<mpc, driver, quit_calls, pending, html_content, main_articles,
              feed, artifact, saves, trace, page_source>>

None == <<>>
Some(v) == <<v>>

(***************************************************************************)
(* str                                                                     *)
(***************************************************************************)

\* str.startswith
StartsWith(s, p) == Len(s) >= Len(p) /\ SubSeq(s, 1, Len(p)) = p

\* the substring test of the CSS attribute selector [href*='...']
Contains(s, p) ==
    \E i \in 1..(Len(s) - Len(p) + 1) : SubSeq(s, i, i + Len(p) - 1) = p

CharAt(s, i) == SubSeq(s, i, i)

Whitespace == {" "}

RECURSIVE LStrip(_)
LStrip(s) ==
    IF Len(s) > 0 /\ CharAt(s, 1) \in Whitespace
    THEN LStrip(SubSeq(s, 2, Len(s)))
    ELSE s

RECURSIVE RStrip(_)
RStrip(s) ==
    IF Len(s) > 0 /\ CharAt(s, Len(s)) \in Whitespace
    THEN RStrip(SubSeq(s, 1, Len(s) - 1))
    ELSE s

\* get_text(strip=True) of an element holding one text node
GetTextStrip(s) == RStrip(LStrip(s))

DigitChars == <<"0", "1", "2", "3", "4", "5", "6", "7", "8", "9">>

IsDigit(c) == \E k \in 1..10 : DigitChars[k] = c

DigitVal(c) == (CHOOSE k \in 1..10 : DigitChars[k] = c) - 1

\* the number of consecutive digits of s from position i on
RECURSIVE DigitRun(_, _)
DigitRun(s, i) ==
    IF i <= Len(s) /\ IsDigit(CharAt(s, i)) THEN 1 + DigitRun(s, i + 1) ELSE 0

\* int() of the n digits of s from position i on
RECURSIVE IntAt(_, _, _)
IntAt(s, i, n) ==
    IF n = 0 THEN 0
    ELSE 10 * IntAt(s, i, n - 1) + DigitVal(CharAt(s, i + n - 1))

(***************************************************************************)
(* datetime                                                                *)
(***************************************************************************)

IsLeap(y) == (y % 4 = 0 /\ y % 100 # 0) \/ y % 400 = 0

DaysInMonth(y, m) ==
    CASE m \in {1, 3, 5, 7, 8, 10, 12} -> 31
      [] m \in {4, 6, 9, 11} -> 30
      [] OTHER -> IF IsLeap(y) THEN 29 ELSE 28

DateTime(y, m, d, H, M, tz) ==
    [year |-> y, month |-> m, day |-> d, hour |-> H, minute |-> M, tzinfo |-> tz]

\* datetime + timedelta(days=n), n >= 0
RECURSIVE AddDays(_, _)
AddDays(dt, n) ==
    LET left == DaysInMonth(dt.year, dt.month) - dt.day
    IN  IF n <= left
        THEN [dt EXCEPT !.day = dt.day + n]
        ELSE AddDays([dt EXCEPT !.day = 1,
                                !.month = IF dt.month = 12 THEN 1 ELSE dt.month + 1,
                                !.year = IF dt.month = 12 THEN dt.year + 1 ELSE dt.year],
                     n - left - 1)

\* date.replace(tzinfo=pytz.UTC)
ReplaceTzDropped(dt) == dt
ReplaceTzUTC(dt) == [dt EXCEPT !.tzinfo = "UTC"]

(***************************************************************************)
(* datetime.strptime: the result is <<datetime>>, or None where Python     *)
(* raises ValueError.  The directives are matched as _strptime's regular   *)
(* expressions match them: %Y is exactly four digits; %m, %d, %H and %M    *)
(* are one or two digits within the directive's range (%d also a blank and *)
(* one digit); a letter of the                                             *)
(* format matches either case; the whole string must be consumed; and the  *)
(* fields must name a real calendar day of a year >= 1.                    *)
(***************************************************************************)

IsSep(s, i, c) == i <= Len(s) /\ CharAt(s, i) \in c

\* a field whose value is v and after which the scan goes on at next
FieldOfVal(v, next, lo, hi) == IF v >= lo /\ v <= hi THEN Some(<<v, next>>) ELSE None

\* the fields are one or two digits wide: a longer run of digits cannot be
\* followed by what the format demands next
FieldOfRun(s, i, n, lo, hi) ==
    IF n \in {1, 2} THEN FieldOfVal(IntAt(s, i, n), i + n, lo, hi) ELSE None

\* a %m / %d / %H / %M field at position i: <<value, next position>>
FieldAt(s, i, lo, hi) == FieldOfRun(s, i, DigitRun(s, i), lo, hi)

\* %Y at position 1
YearAt(s) == IF DigitRun(s, 1) = 4 THEN Some(IntAt(s, 1, 4)) ELSE None

\* datetime(y, m, d, ...) raises ValueError for a day that does not exist
YMDAfterDay(y, m, d) ==
    IF d = None THEN None
    ELSE IF y < 1 \/ d[1][1] > DaysInMonth(y, m) THEN None
    ELSE Some(<<y, m, d[1][1], d[1][2]>>)

\* %d at position i: one or two digits, or a blank and one digit
DayAt(s, i) ==
    IF IsSep(s, i, {" "})
    THEN (IF DigitRun(s, i + 1) = 1 THEN FieldOfVal(IntAt(s, i + 1, 1), i + 2, 1, 9)
          ELSE None)
    ELSE FieldAt(s, i, 1, 31)

YMDAfterMonth(s, y, m) ==
    IF m = None THEN None
    ELSE IF ~IsSep(s, m[1][2], {"-"}) THEN None
    ELSE YMDAfterDay(y, m[1][1], DayAt(s, m[1][2] + 1))

YMDAfterYear(s, y) ==
    IF y = None \/ ~IsSep(s, 5, {"-"}) THEN None
    ELSE YMDAfterMonth(s, y[1], FieldAt(s, 6, 1, 12))

\* "%Y-%m-%d" from position 1: <<year, month, day, next position>>
ParseYMD(s) == YMDAfterYear(s, YearAt(s))

DateOfYMD(s, r) ==
    IF r = None THEN None
    ELSE IF r[1][4] # Len(s) + 1 THEN None
    ELSE Some(DateTime(r[1][1], r[1][2], r[1][3], 0, 0, "naive"))

\* datetime.strptime(s, "%Y-%m-%d")
StrptimeDate(s) == DateOfYMD(s, ParseYMD(s))

MinuteAfterMinute(s, r, H, M) ==
    IF M = None THEN None
    ELSE IF M[1][2] # Len(s) + 1 THEN None
    ELSE Some(DateTime(r[1], r[2], r[3], H, M[1][1], "naive"))

MinuteAfterHour(s, r, H) ==
    IF H = None THEN None
    ELSE IF ~IsSep(s, H[1][2], {":"}) THEN None
    ELSE MinuteAfterMinute(s, r, H[1][1], FieldAt(s, H[1][2] + 1, 0, 59))

MinuteOfYMD(s, r) ==
    IF r = None THEN None
    ELSE IF ~IsSep(s, r[1][4], {"T", "t"}) THEN None
    ELSE MinuteAfterHour(s, r[1], FieldAt(s, r[1][4] + 1, 0, 23))

\* datetime.strptime(s, "%Y-%m-%dT%H:%M")
StrptimeMinute(s) == MinuteOfYMD(s, ParseYMD(s))

(***************************************************************************)
(* stable_fallback_date                                                    *)
(*                                                                         *)
(* hash() of a str is keyed by a secret the interpreter draws when the     *)
(* process starts (PYTHONHASHSEED unset): within one process it is a       *)
(* function of the string, and from process to process it may be any       *)
(* integer.  pyhash is the function of the running process.                *)
(***************************************************************************)

SITE_ORIGIN == "https://openai.com"

\* the identifiers the fallback is asked about: the absolute article links
Identifiers == {SITE_ORIGIN \o "/index/a", SITE_ORIGIN \o "/index/b"}

\* values hash() may return: both signs, and both sides of the multiples of
\* the window
HashVals == {-1461, -1460, -731, -730, -729, -1, 0, 1, 364, 729, 730, 731, 1459}

PyHash(identifier) == pyhash[identifier]

PyAbs(n) == IF n < 0 THEN -n ELSE n

FALLBACK_WINDOW == 730
EPOCH_YEAR == 2023

FallbackOffsetNoWindow(identifier) == PyAbs(PyHash(identifier))
\* hash_val = abs(hash(identifier)) % 730
FallbackOffset(identifier) == PyAbs(PyHash(identifier)) % FALLBACK_WINDOW

\* epoch = datetime(2023, 1, 1, 0, 0, 0, tzinfo=pytz.UTC)
Epoch == DateTime(EPOCH_YEAR, 1, 1, 0, 0, "UTC")

stable_fallback_date(identifier) == AddDays(Epoch, FallbackOffset(identifier))

Procs == {1, 2}

\* a new interpreter process: a new hash secret
StartProcess ==
    /\ proc + 1 \in Procs
    /\ proc' = proc + 1
    /\ pyhash' \in [Identifiers -> HashVals]
    /\ UNCHANGED <<fallback_log, parseVars, feedVars, mainVars, log>>

\* a call of stable_fallback_date in the running process; fallback_log keeps
\* what each process obtained for each identifier
CallFallback ==
    \E identifier \in Identifiers :
        /\ fallback_log' =
               [fallback_log EXCEPT ![proc][identifier] =
                    Some(stable_fallback_date(identifier))]
        /\ UNCHANGED <<pyhash, proc, parseVars, feedVars, mainVars, log>>

(***************************************************************************)
(* parse_openai_eng_html                                                   *)
(*                                                                         *)
(* A card (one div.group.relative of the document) is what the selectors   *)
(* of the loop body read from it:                                          *)
(*   anchors    the href of each <a href=...> of the card, document order  *)
(*   title      the text of the first div.text-h5, if any                  *)
(*   datetime   the datetime attribute of the first time[datetime], if any *)
(*   meta_span  the text of the first span.text-meta span:first-child      *)
(*   meta_p     the texts of the child spans of the first p.text-meta      *)
(*   raises     the part of the try body in which an exception is raised   *)
(*              once control reaches it ("none": no statement raises)      *)
(***************************************************************************)

Card(anchors, title, dt, span, p, raises) ==
    [anchors |-> anchors, title |-> title, datetime |-> dt,
     meta_span |-> span, meta_p |-> p, raises |-> raises]

MinOf(S) == CHOOSE i \in S : \A j \in S : i <= j

\* link_elem = card.select_one("a[href*='/index/']"); href = link_elem.get("href", "")
SelectArticleHref(card) ==
    LET hits == {i \in 1..Len(card.anchors) : Contains(card.anchors[i], "/index/")}
    IN  IF hits = {} THEN None ELSE Some(card.anchors[MinOf(hits)])

\* Build full URL
AbsoluteLink(href) ==
    IF StartsWith(href, "/") THEN Some(SITE_ORIGIN \o href)
    ELSE IF StartsWith(href, "http") THEN Some(href)
    ELSE None

\* seen_links.add(link)
MarkSeenForgotten(seen, link) == seen
MarkSeen(seen, link) == seen \cup {link}

TitleOfTextUnstripped(text) == IF text = "" THEN None ELSE Some(text)
TitleOfText(text) == IF GetTextStrip(text) = "" THEN None ELSE Some(GetTextStrip(text))

\* Extract title from the text-h5 div
ExtractTitle(card) ==
    IF card.title = None THEN None ELSE TitleOfText(card.title[1])

DateResult(date, warnings) == [date |-> date, warnings |-> warnings]

DateParseWarning(title) ==
    <<"WARNING", "Date parsing failed for article: " \o title>>

\* try "%Y-%m-%dT%H:%M", except ValueError: try "%Y-%m-%d", except
\* ValueError: warn and fall back
DateOfAttr(minute, dateonly, link, title) ==
    IF minute # None THEN DateResult(ReplaceTzUTC(minute[1]), <<>>)
    ELSE IF dateonly # None THEN DateResult(ReplaceTzUTC(dateonly[1]), <<>>)
    ELSE DateResult(stable_fallback_date(link), <<DateParseWarning(title)>>)

\* Extract date from <time> element; the result carries the warning logged
ExtractDate(card, link, title) ==
    IF card.datetime = None
    THEN DateResult(stable_fallback_date(link), <<>>)
    ELSE DateOfAttr(StrptimeMinute(card.datetime[1]), StrptimeDate(card.datetime[1]),
                    link, title)

\* Extract category
ExtractCategory(card) ==
    IF card.meta_span # None THEN GetTextStrip(card.meta_span[1])
    ELSE IF card.meta_p # None /\ card.meta_p[1] # <<>>
    THEN GetTextStrip(card.meta_p[1][1])
    ELSE "Engineering"

Article(title, link, date, category) ==
    [title |-> title, link |-> link, date |-> date, category |-> category,
     description |-> title]

SkipWarning == <<"WARNING", "Skipping an article due to parsing error">>

StepResult(arts, seen, outcome, warnings) ==
    [articles |-> arts, seen_links |-> seen, outcome |-> outcome,
     warnings |-> warnings]

Raised(arts, seen, warnings) ==
    StepResult(arts, seen, "exception", warnings \o <<SkipWarning>>)

\* articles.append({...})
StepAppend(card, arts, seen, link, title, d) ==
    IF card.raises = "category" THEN Raised(arts, seen, d.warnings)
    ELSE StepResult(Append(arts, Article(title, link, d.date, ExtractCategory(card))),
                    seen, "record", d.warnings)

\* if not title_elem: continue ... if not title: continue
StepTitle(card, arts, seen, link, title) ==
    IF title = None THEN StepResult(arts, seen, "no_title", <<>>)
    ELSE IF card.raises = "date" THEN Raised(arts, seen, <<>>)
    ELSE StepAppend(card, arts, seen, link, title[1],
                    ExtractDate(card, link, title[1]))

\* the statements after seen_links.add(link)
StepSeen(card, arts, seen, link) ==
    IF card.raises = "title" THEN Raised(arts, seen, <<>>)
    ELSE StepTitle(card, arts, seen, link, ExtractTitle(card))

\* Deduplicate
StepDedup(card, arts, seen, link) ==
    IF link \in seen THEN StepResult(arts, seen, "duplicate", <<>>)
    ELSE StepSeen(card, arts, MarkSeen(seen, link), link)

\* Build full URL ... else: continue
StepLink(card, arts, seen, abs) ==
    IF abs = None THEN StepResult(arts, seen, "relative_href", <<>>)
    ELSE StepDedup(card, arts, seen, abs[1])

\* if not link_elem: continue ... if not href: continue
StepHref(card, arts, seen, href) ==
    IF href = None THEN StepResult(arts, seen, "no_anchor", <<>>)
    ELSE IF href[1] = "" THEN StepResult(arts, seen, "empty_href", <<>>)
    ELSE StepLink(card, arts, seen, AbsoluteLink(href[1]))

\* One iteration of "for card in cards": the try body, and the handler of
\* "except Exception" when card.raises names a part that control reaches.
CardStep(card, arts, seen) ==
    IF card.raises = "link" THEN Raised(arts, seen, <<>>)
    ELSE StepHref(card, arts, seen, SelectArticleHref(card))

ParsedInfo == <<"INFO", "Parsed articles">>

RECURSIVE ParseFrom(_, _, _, _, _)
ParseFrom(doc, i, arts, seen, warnings) ==
    IF i > Len(doc) THEN [articles |-> arts, log |-> Append(warnings, ParsedInfo)]
    ELSE LET r == CardStep(doc[i], arts, seen)
         IN  ParseFrom(doc, i + 1, r.articles, r.seen_links, warnings \o r.warnings)

\* the list parse_openai_eng_html returns for a document, and what it logs
parse_openai_eng_html(doc) == ParseFrom(doc, 1, <<>>, {}, <<>>).articles
parse_log(doc) == ParseFrom(doc, 1, <<>>, {}, <<>>).log

\* for card in cards: one iteration
ParseCard ==
    /\ ppc = "loop"
    /\ idx < Len(cards)
    /\ LET r == CardStep(cards[idx + 1], articles, seen_links)
       IN  /\ articles' = r.articles
           /\ seen_links' = r.seen_links
           /\ outcomes' = Append(outcomes, r.outcome)
           /\ origin' = IF r.outcome = "record" THEN Append(origin, idx + 1) ELSE origin
           /\ log' = log \o r.warnings
    /\ idx' = idx + 1
    /\ UNCHANGED <<cards, ppc, pyhash, resolverVars, feedVars, mainVars>>

\* logger.info(f"Parsed {len(articles)} articles"); return articles
ParseReturn ==
    /\ ppc = "loop"
    /\ idx = Len(cards)
    /\ ppc' = "returned"
    /\ log' = Append(log, ParsedInfo)
    /\ UNCHANGED <<cards, idx, articles, seen_links, outcomes, origin,
                   pyhash, resolverVars, feedVars, mainVars>>

(***************************************************************************)
(* generate_rss_feed                                                       *)
(***************************************************************************)

\* the order of two datetimes of the same tzinfo
DateLess(a, b) ==
    LET ka == <<a.year, a.month, a.day, a.hour, a.minute>>
        kb == <<b.year, b.month, b.day, b.hour, b.minute>>
    IN  \E i \in 1..5 : ka[i] < kb[i] /\ \A j \in 1..(i - 1) : ka[j] = kb[j]

\* utils.sort_posts_for_feed: newest first, equal dates in their input order
InsertByDate(sorted, post) ==
    LET before == {i \in 1..Len(sorted) : ~DateLess(sorted[i].date, post.date)}
        k == Cardinality(before)
    IN  SubSeq(sorted, 1, k) \o <<post>> \o SubSeq(sorted, k + 1, Len(sorted))

RECURSIVE SortFrom(_, _, _)
SortFrom(posts, i, sorted) ==
    IF i > Len(posts) THEN sorted
    ELSE SortFrom(posts, i + 1, InsertByDate(sorted, posts[i]))

sort_posts_for_feed(posts) == SortFrom(posts, 1, <<>>)

\* fe.title, fe.link, fe.description, fe.published, fe.category
FeedEntry(article) ==
    [title |-> article.title, link |-> article.link,
     description |-> article.description, published |-> article.date,
     category |-> article.category]

\* fg.add_entry(): called without order=, the new entry is put in front of
\* the entries the generator already holds
AddEntryAppend(entries, fe) == Append(entries, fe)
AddEntry(entries, fe) == <<fe>> \o entries

RECURSIVE AddFrom(_, _, _)
AddFrom(sorted, i, entries) ==
    IF i > Len(sorted) THEN entries
    ELSE AddFrom(sorted, i + 1, AddEntry(entries, FeedEntry(sorted[i])))

\* the FeedGenerator generate_rss_feed returns
Channel(entries) ==
    [title |-> "OpenAI Engineering News",
     description |-> "Stories about the technology and builders at OpenAI.",
     language |-> "en", entries |-> entries]

generate_rss_feed(arts) == Channel(AddFrom(sort_posts_for_feed(arts), 1, <<>>))

\* fg = FeedGenerator() ... sorted_articles = sort_posts_for_feed(articles)
FeedStart ==
    /\ fpc = "start"
    /\ sorted_articles' = sort_posts_for_feed(feed_in)
    /\ feed_entries' = <<>>
    /\ fpc' = "loop"
    /\ UNCHANGED <<feed_in, pyhash, resolverVars, parseVars, mainVars, log>>

\* for article in sorted_articles: one iteration
FeedAddEntry ==
    /\ fpc = "loop"
    /\ Len(feed_entries) < Len(sorted_articles)
    /\ feed_entries' =
           AddEntry(feed_entries, FeedEntry(sorted_articles[Len(feed_entries) + 1]))
    /\ UNCHANGED <<feed_in, sorted_articles, fpc, pyhash, resolverVars,
                   parseVars, mainVars, log>>

\* logger.info("RSS feed generated successfully"); return fg
FeedReturn ==
    /\ fpc = "loop"
    /\ Len(feed_entries) = Len(sorted_articles)
    /\ fpc' = "returned"
    /\ log' = Append(log, <<"INFO", "RSS feed generated successfully">>)
    /\ UNCHANGED <<feed_in, sorted_articles, feed_entries, pyhash,
                   resolverVars, parseVars, mainVars>>

(***************************************************************************)
(* The documents, hash functions and record lists the model is run on      *)
(***************************************************************************)

MaxCards == 3
MaxDateCards == 1
MaxPageCards == 1
MaxArticles == 3

SeqsUpTo(S, n) == UNION {[1..k -> S] : k \in 0..n}

\* cards that differ in their link, title and category markup, and in the
\* part of the loop body that raises
CardsParse ==
    { Card(<<"/about">>, Some("Foo"), Some("2024-03-01"), None, None, "none"),
      Card(<<"blog/index/c">>, Some("Foo"), Some("2024-03-01"), None, None, "none"),
      Card(<<"/index/a">>, Some(" Foo "), Some("2024-03-01T12:00"),
           Some("Research"), None, "none"),
      Card(<<"https://openai.com/index/a">>, Some("Bar"), None, None, None, "none"),
      Card(<<"/index/a">>, None, Some("2024-03-01"), Some("Research"), None, "none"),
      Card(<<"https://openai.com/index/b">>, Some("  "), Some("2024-03-01"),
           None, Some(<<"Company">>), "none"),
      Card(<<"/about", "/index/b">>, Some("Bar"), Some("not a date"),
           None, Some(<<"Company">>), "none"),
      Card(<<"/index/b">>, Some("Foo"), Some("2024-03-01"), None, Some(<<>>), "none"),
      Card(<<"/index/a">>, Some("Foo"), Some("2024-03-01"), None, None, "link"),
      Card(<<"/index/a">>, Some("Foo"), Some("2024-03-01"), None, None, "title"),
      Card(<<"/index/b">>, Some("Bar"), Some("2024-03-01"), None, None, "date"),
      Card(<<"https://openai.com/index/b">>, Some("Bar"), None, None, None,
           "category") }

\* datetime attributes: both formats, padded and unpadded, out-of-range
\* fields, days that do not exist, trailing text, and text that is no date
DateAttrs ==
    { "2024-03-01T12:00", "2024-03-01", "2024-3-1", "2024-3-1T9:5",
      "2024-03-01t23:59", "2023-02-29", "2024-02-29", "2024-03-01T24:00",
      "2024-03-01T12:60", "2024-03-01T12:00:00", "2024-13-01", "2024-00-10",
      "0000-01-01", "20240301", "", "March 1, 2024", "2024-03-01T12:00Z",
      "2024-03-010", "2024-03-01T", "2023-01-01T00:00", "2024-03- 1",
      "2024-03- 1T10:00", "2024-03- 12", "2024-03-01T 9:00" }

CardsDates ==
    { Card(<<href>>, Some("Foo"), dt, None, None, "none") :
        href \in {"/index/a", "https://openai.com/index/b"},
        dt \in {None} \cup {Some(a) : a \in DateAttrs} }

Docs == SeqsUpTo(CardsParse, MaxCards) \cup SeqsUpTo(CardsDates, MaxDateCards)

ParseHashFns == [Identifiers -> {-731, 364}]

\* the pages the browser may hand back
Pages == SeqsUpTo(CardsParse, MaxPageCards)

UtcDate(y, m, d, H, M) == DateTime(y, m, d, H, M, "UTC")

\* records for generate_rss_feed: two of them share a date
FeedRecords ==
    { Article("Foo", SITE_ORIGIN \o "/index/a", UtcDate(2024, 3, 1, 12, 0), "Research"),
      Article("Bar", SITE_ORIGIN \o "/index/b", UtcDate(2024, 3, 1, 12, 0), "Engineering"),
      Article("Baz", SITE_ORIGIN \o "/index/c", UtcDate(2023, 12, 31, 0, 0), "Company"),
      Article("Qux", SITE_ORIGIN \o "/index/d", UtcDate(2024, 3, 2, 0, 0), "Engineering") }

(***************************************************************************)
(* fetch_news_content_selenium and main                                    *)
(*                                                                         *)
(* A call of the browser, the parser, the feed library or the file system  *)
(* either completes or raises; what is raised is an instance of Exception. *)
(* pending is the exception in flight ("none": none).                      *)
(***************************************************************************)

Raisable == {"WebDriverException", "OSError"}

\* the classes "except Exception" catches
ExceptionClasses == {"WebDriverException", "OSError", "ValueError", "TypeError"}

CatchesOnlyValueError(cls) == cls = "ValueError"
CatchesException(cls) == cls \in ExceptionClasses

ErrorFetching == <<"ERROR", "Error fetching content">>
ErrorFailed == <<"ERROR", "Failed to generate RSS feed">>

\* driver = None; logger.info(f"Fetching content from URL: {url}")
FetchEnter ==
    /\ mpc = "start"
    /\ mpc' = "setup"
    /\ log' = Append(log, <<"INFO", "Fetching content from URL">>)
    /\ UNCHANGED <<driver, quit_calls, pending, html_content, main_articles, feed,
                   artifact, saves, trace, page_source,
                   pyhash, resolverVars, parseVars, feedVars>>

\* driver = setup_selenium_driver()
FetchSetup ==
    /\ mpc = "setup"
    /\ \/ /\ driver' = "session"
          /\ mpc' = "get"
          /\ UNCHANGED pending
       \/ \E e \in Raisable :
             /\ pending' = e
             /\ mpc' = "except"
             /\ UNCHANGED driver
    /\ UNCHANGED <<quit_calls, html_content, main_articles, feed, artifact, saves,
                   trace, page_source, log, pyhash, resolverVars, parseVars, feedVars>>

\* driver.get(url)
FetchGet ==
    /\ mpc = "get"
    /\ \/ /\ mpc' = "sleep"
          /\ UNCHANGED pending
       \/ \E e \in Raisable :
             /\ pending' = e
             /\ mpc' = "except"
    /\ UNCHANGED <<driver, quit_calls, html_content, main_articles, feed, artifact,
                   saves, trace, page_source, log,
                   pyhash, resolverVars, parseVars, feedVars>>

\* logger.info(...); time.sleep(wait_time)
FetchWait ==
    /\ mpc = "sleep"
    /\ \/ /\ mpc' = "source"
          /\ UNCHANGED pending
       \/ \E e \in Raisable :
             /\ pending' = e
             /\ mpc' = "except"
    /\ log' = Append(log, <<"INFO", "Waiting for the page to fully load">>)
    /\ UNCHANGED <<driver, quit_calls, html_content, main_articles, feed, artifact,
                   saves, trace, page_source, pyhash, resolverVars, parseVars, feedVars>>

\* html_content = driver.page_source
FetchSource ==
    /\ mpc = "source"
    /\ \/ \E page \in Pages :
             /\ page_source' = Some(page)
             /\ mpc' = "finally"
             /\ log' = Append(log, <<"INFO", "Successfully fetched HTML content">>)
             /\ UNCHANGED pending
       \/ \E e \in Raisable :
             /\ pending' = e
             /\ mpc' = "except"
             /\ UNCHANGED <<page_source, log>>
    /\ UNCHANGED <<driver, quit_calls, html_content, main_articles, feed, artifact,
                   saves, trace, pyhash, resolverVars, parseVars, feedVars>>

\* except Exception as e: logger.error(...); raise
FetchExcept ==
    /\ mpc = "except"
    /\ mpc' = "finally"
    /\ log' = Append(log, ErrorFetching)
    /\ UNCHANGED <<driver, quit_calls, pending, html_content, main_articles, feed,
                   artifact, saves, trace, page_source,
                   pyhash, resolverVars, parseVars, feedVars>>

\* finally: if driver:
QuitOnlyOnSuccess(d, p) == d # "None" /\ p = "none"
ShouldQuit(d, p) == d # "None"

\* where control goes when fetch_news_content_selenium is left with exception
\* p in flight: to the next statement of main, or to main's handler
FetchSwallowed(p) == "extract"
FetchExit(p) == IF p = "none" THEN "extract" ELSE "main_except"

\* finally: if driver: driver.quit(); then the return, or the exception,
\* reaches main (html_content = fetch_news_content_selenium(url))
FetchFinally ==
    /\ mpc = "finally"
    /\ IF ShouldQuit(driver, pending)
       THEN /\ quit_calls' = quit_calls + 1
            /\ \/ pending' = pending
               \/ \E e \in Raisable : pending' = e
       ELSE UNCHANGED <<quit_calls, pending>>
    /\ mpc' = FetchExit(pending')
    /\ html_content' = IF pending' = "none" THEN page_source ELSE None
    /\ trace' = Append(trace, <<"fetch", IF pending' = "none" THEN "ok" ELSE "raise">>)
    /\ UNCHANGED <<driver, main_articles, feed, artifact, saves, page_source, log,
                   pyhash, resolverVars, parseVars, feedVars>>

NoArticlesWarning == <<"WARNING", "No articles were parsed. Check your selectors.">>

\* articles = parse_openai_eng_html(html_content); if not articles: warning
\* (BeautifulSoup raises TypeError when handed None)
Extract ==
    /\ mpc = "extract"
    /\ \/ \E e \in (IF html_content = None THEN {"TypeError"} ELSE Raisable) :
             /\ pending' = e
             /\ mpc' = "main_except"
             /\ trace' = Append(trace, <<"extract", "raise">>)
             /\ UNCHANGED <<main_articles, log>>
       \/ /\ html_content # None
          /\ main_articles' = parse_openai_eng_html(html_content[1])
          /\ log' = log \o parse_log(html_content[1])
                        \o (IF parse_openai_eng_html(html_content[1]) = <<>>
                            THEN <<NoArticlesWarning>> ELSE <<>>)
          /\ mpc' = "assemble"
          /\ trace' = Append(trace, <<"extract", "ok">>)
          /\ UNCHANGED pending
    /\ UNCHANGED <<driver, quit_calls, html_content, feed, artifact, saves,
                   page_source, pyhash, resolverVars, parseVars, feedVars>>

\* feed = generate_rss_feed(articles)
Assemble ==
    /\ mpc = "assemble"
    /\ \/ /\ feed' = Some(generate_rss_feed(main_articles))
          /\ log' = Append(log, <<"INFO", "RSS feed generated successfully">>)
          /\ mpc' = "persist"
          /\ trace' = Append(trace, <<"assemble", "ok">>)
          /\ UNCHANGED pending
       \/ \E e \in Raisable :
             /\ pending' = e
             /\ mpc' = "main_except"
             /\ trace' = Append(trace, <<"assemble", "raise">>)
             /\ UNCHANGED <<feed, log>>
    /\ UNCHANGED <<driver, quit_calls, html_content, main_articles, artifact, saves,
                   page_source, pyhash, resolverVars, parseVars, feedVars>>

\* save_rss_feed(feed): saves counts the calls; a call that raises may
\* leave an incomplete file behind
Persist ==
    /\ mpc = "persist"
    /\ saves' = saves + 1
    /\ \/ /\ artifact' = Some([complete |-> TRUE, feed |-> feed[1]])
          /\ log' = Append(log, <<"INFO", "RSS feed saved">>)
          /\ mpc' = "done"
          /\ trace' = Append(trace, <<"persist", "ok">>)
          /\ UNCHANGED pending
       \/ \E e \in Raisable :
             /\ pending' = e
             /\ artifact' \in {artifact, Some([complete |-> FALSE, feed |-> feed[1]])}
             /\ mpc' = "main_except"
             /\ trace' = Append(trace, <<"persist", "raise">>)
             /\ UNCHANGED log
    /\ UNCHANGED <<driver, quit_calls, html_content, main_articles, feed,
                   page_source, pyhash, resolverVars, parseVars, feedVars>>

\* except Exception as e: logger.error(...); an exception the clause does
\* not match leaves main
MainExcept ==
    /\ mpc = "main_except"
    /\ IF CatchesException(pending)
       THEN /\ mpc' = "failed"
            /\ log' = Append(log, ErrorFailed)
       ELSE /\ mpc' = "escaped"
            /\ UNCHANGED log
    /\ UNCHANGED <<driver, quit_calls, pending, html_content, main_articles, feed,
                   artifact, saves, trace, page_source,
                   pyhash, resolverVars, parseVars, feedVars>>

(***************************************************************************)
(* Specifications                                                          *)
(***************************************************************************)

ResolverIdle ==
    /\ proc = 1
    /\ fallback_log = [p \in Procs |-> [i \in Identifiers |-> None]]

ParseIdle ==
    /\ cards = <<>>
    /\ idx = 0
    /\ articles = <<>>
    /\ seen_links = {}
    /\ outcomes = <<>>
    /\ origin = <<>>
    /\ ppc = "idle"

FeedIdle ==
    /\ feed_in = <<>>
    /\ sorted_articles = <<>>
    /\ feed_entries = <<>>
    /\ fpc = "idle"

MainIdle ==
    /\ mpc = "idle"
    /\ driver = "None"
    /\ quit_calls = 0
    /\ pending = "none"
    /\ html_content = None
    /\ main_articles = <<>>
    /\ feed = None
    /\ artifact = None
    /\ saves = 0
    /\ trace = <<>>
    /\ page_source = None

\* stable_fallback_date called in one interpreter process after another
InitResolver ==
    /\ pyhash \in [Identifiers -> HashVals]
    /\ ResolverIdle /\ ParseIdle /\ FeedIdle /\ MainIdle
    /\ log = <<>>

NextResolver == StartProcess \/ CallFallback

SpecResolver == InitResolver /\ [][NextResolver]_vars

\* one call of parse_openai_eng_html on a document
InitParse ==
    /\ pyhash \in ParseHashFns
    /\ ResolverIdle /\ FeedIdle /\ MainIdle
    /\ cards \in Docs
    /\ idx = 0
    /\ articles = <<>>
    /\ seen_links = {}
    /\ outcomes = <<>>
    /\ origin = <<>>
    /\ ppc = "loop"
    /\ log = <<>>

NextParse == ParseCard \/ ParseReturn

SpecParse == InitParse /\ [][NextParse]_vars

\* one call of generate_rss_feed on a list of records
InitFeed ==
    /\ pyhash \in ParseHashFns
    /\ ResolverIdle /\ ParseIdle /\ MainIdle
    /\ feed_in \in SeqsUpTo(FeedRecords, MaxArticles)
    /\ sorted_articles = <<>>
    /\ feed_entries = <<>>
    /\ fpc = "start"
    /\ log = <<>>

NextFeed == FeedStart \/ FeedAddEntry \/ FeedReturn

SpecFeed == InitFeed /\ [][NextFeed]_vars

\* one run of main
InitMain ==
    /\ pyhash \in ParseHashFns
    /\ ResolverIdle /\ ParseIdle /\ FeedIdle
    /\ mpc = "start"
    /\ driver = "None"
    /\ quit_calls = 0
    /\ pending = "none"
    /\ html_content = None
    /\ main_articles = <<>>
    /\ feed = None
    /\ artifact = None
    /\ saves = 0
    /\ trace = <<>>
    /\ page_source = None
    /\ log = <<>>

NextMain ==
    \/ FetchEnter \/ FetchSetup \/ FetchGet \/ FetchWait \/ FetchSource
    \/ FetchExcept \/ FetchFinally
    \/ Extract \/ Assemble \/ Persist \/ MainExcept

SpecMain == InitMain /\ [][NextMain]_vars

\* main is sequential code: a statement that can run does run, and every
\* call it makes returns or raises
SpecMainFair == SpecMain /\ WF_vars(NextMain)

(***************************************************************************)
(* Properties of stable_fallback_date                                      *)
(***************************************************************************)

RECURSIVE DaysBeforeMonth(_, _)
DaysBeforeMonth(y, m) ==
    IF m = 1 THEN 0 ELSE DaysBeforeMonth(y, m - 1) + DaysInMonth(y, m - 1)

RECURSIVE DaysBeforeYear(_)
DaysBeforeYear(y) ==
    IF y = EPOCH_YEAR THEN 0
    ELSE DaysBeforeYear(y - 1) + (IF IsLeap(y - 1) THEN 366 ELSE 365)

\* the whole days from 2023-01-01 to the day of dt (dt not before 2023)
DayNumber(dt) == DaysBeforeYear(dt.year) + DaysBeforeMonth(dt.year, dt.month) + dt.day - 1

WindowEnd == UtcDate(2024, 12, 31, 0, 0)

\* the fallback dates handed out so far
Logged == {<<p, i>> \in Procs \X Identifiers : fallback_log[p][i] # None}

\* C4: whatever integer the hash returns for an identifier, negative
\* included, stable_fallback_date returns midnight UTC of a day that is d
\* whole days after 2023-01-01 with 0 <= d <= 729, hence a date from
\* 2023-01-01T00:00Z to 2024-12-31T00:00Z.
C4_FallbackRange ==
    \A pi \in Logged :
        LET r == fallback_log[pi[1]][pi[2]][1]
        IN  /\ r.tzinfo = "UTC"
            /\ r.hour = 0 /\ r.minute = 0
            /\ r.year >= EPOCH_YEAR
            /\ DayNumber(r) \in 0..729
            /\ ~DateLess(r, Epoch)
            /\ ~DateLess(WindowEnd, r)

\* a negative hash that lands on the last day of the window
C4_Witness ==
    \E i \in Identifiers :
        /\ pyhash[i] = -729
        /\ fallback_log[proc][i] = Some(UtcDate(2024, 12, 30, 0, 0))

\* C5: two interpreter processes that call stable_fallback_date with the
\* same identifier obtain the same timestamp.
C5_StableAcrossRuns ==
    \A p \in Procs, q \in Procs, i \in Identifiers :
        (fallback_log[p][i] # None /\ fallback_log[q][i] # None)
            => fallback_log[p][i] = fallback_log[q][i]

(***************************************************************************)
(* Properties of parse_openai_eng_html                                     *)
(***************************************************************************)

\* the href of the card's article anchor: of its first anchor whose href
\* holds "/index/"
ArticleHrefs(card) ==
    {i \in 1..Len(card.anchors) : Contains(card.anchors[i], "/index/")}

\* the absolute link a card carries, if any: its article href when that
\* begins with "http" (absolute), the site's origin and the href when it
\* begins with "/" (root-relative).  A card on which the extraction of the
\* link itself raises carries none.
CardLink(card) ==
    IF card.raises = "link" \/ ArticleHrefs(card) = {} THEN None
    ELSE LET href == card.anchors[MinOf(ArticleHrefs(card))]
         IN  IF StartsWith(href, "/") THEN Some("https://openai.com" \o href)
             ELSE IF StartsWith(href, "http") THEN Some(href)
             ELSE None

\* the title element exists and its trimmed text is not empty
HasTitle(card) == card.title # None /\ GetTextStrip(card.title[1]) # ""

Carriers(link) == {i \in 1..idx : CardLink(cards[i]) = Some(link)}

AsUTC(dt) == DateTime(dt.year, dt.month, dt.day, dt.hour, dt.minute, "UTC")

\* the date the record of a card is to carry
ExpectedDate(card, link) ==
    IF card.datetime # None /\ StrptimeMinute(card.datetime[1]) # None
    THEN AsUTC(StrptimeMinute(card.datetime[1])[1])
    ELSE IF card.datetime # None /\ StrptimeDate(card.datetime[1]) # None
    THEN AsUTC(StrptimeDate(card.datetime[1])[1])
    ELSE stable_fallback_date(link)

\* C1: no two records have the same link, and the record of a link carries
\* the title, date and category of the first card, in document order, that
\* carries the link: a later card with the link produces and overwrites
\* nothing.
C1_FirstSeenWins ==
    /\ Len(origin) = Len(articles)
    /\ \A i \in 1..Len(articles), j \in 1..Len(articles) :
          articles[i].link = articles[j].link => i = j
    /\ \A k \in 1..Len(articles) :
          LET a == articles[k]
              c == cards[origin[k]]
          IN  /\ origin[k] = MinOf(Carriers(a.link))
              /\ a.title = GetTextStrip(c.title[1])
              /\ a.date = ExpectedDate(c, a.link)
              /\ a.category = ExtractCategory(c)

\* the pass is over; a root-relative and an absolute card carried the same
\* link under different titles, and only the first became a record
C1_Witness ==
    /\ ppc = "returned"
    /\ \E i \in 1..idx, j \in 1..idx :
          /\ i < j
          /\ CardLink(cards[i]) # None
          /\ CardLink(cards[i]) = CardLink(cards[j])
          /\ cards[i].anchors # cards[j].anchors
          /\ outcomes[i] = "record"
          /\ outcomes[j] = "duplicate"
          /\ HasTitle(cards[j])
          /\ GetTextStrip(cards[j].title[1]) # GetTextStrip(cards[i].title[1])

\* C2: a card that raises no exception produces a record if and only if
\* (1) it has an article anchor whose href is root-relative (begins with
\* "/") or absolute (begins with "http"),
\* (2) no earlier card of the pass carried its absolute link, and (3) its
\* title element exists with non-empty trimmed text.  A missing or
\* unparsable date, or a missing category, rejects no card.
C2_RecordIff ==
    \A k \in 1..idx :
        outcomes[k] # "exception" =>
            (outcomes[k] = "record" <=>
                /\ CardLink(cards[k]) # None
                /\ \A j \in 1..(k - 1) : CardLink(cards[j]) # CardLink(cards[k])
                /\ HasTitle(cards[k]))

\* a card without date and category markup became a record, and a card
\* without a usable title did not
C2_Witness ==
    /\ ppc = "returned"
    /\ \E k \in 1..idx :
          /\ outcomes[k] = "record"
          /\ cards[k].datetime = None
          /\ cards[k].meta_span = None
          /\ cards[k].meta_p = None
    /\ \E k \in 1..idx :
          /\ outcomes[k] = "no_title"
          /\ cards[k].title # None
          /\ cards[k].datetime # None

\* C3: the date of every record is UTC-aware, and it is the datetime
\* attribute parsed as YYYY-MM-DDTHH:MM if that parses, else the attribute
\* parsed as YYYY-MM-DD if that parses, else (no attribute, or neither
\* parses) stable_fallback_date of the record's absolute link.
C3_RecordDate ==
    \A k \in 1..Len(articles) :
        /\ articles[k].date.tzinfo = "UTC"
        /\ articles[k].date = ExpectedDate(cards[origin[k]], articles[k].link)

\* one record dated by its attribute, one by the fallback after an
\* attribute that does not parse
C3_Witness ==
    /\ ppc = "returned"
    /\ \E k \in 1..Len(articles) :
          /\ cards[origin[k]].datetime # None
          /\ StrptimeMinute(cards[origin[k]].datetime[1]) # None
    /\ \E k \in 1..Len(articles) :
          /\ cards[origin[k]].datetime # None
          /\ StrptimeMinute(cards[origin[k]].datetime[1]) = None
          /\ StrptimeDate(cards[origin[k]].datetime[1]) = None
          /\ articles[k].date = stable_fallback_date(articles[k].link)

\* the document without the cards whose processing raised
RECURSIVE WithoutRaised(_, _)
WithoutRaised(doc, i) ==
    IF i > Len(doc) THEN <<>>
    ELSE (IF outcomes[i] = "exception" THEN <<>> ELSE <<doc[i]>>)
             \o WithoutRaised(doc, i + 1)

\* C10: an exception in one card aborts only that card: the pass returns
\* the records it would have returned had the raising cards been absent
\* from the document.
C10_RaisedCardAsAbsent ==
    ppc = "returned" => articles = parse_openai_eng_html(WithoutRaised(cards, 1))

(***************************************************************************)
(* Properties of generate_rss_feed                                         *)
(***************************************************************************)

Occurrences(seq, x) == Cardinality({i \in 1..Len(seq) : seq[i] = x})

\* one entry per record: none dropped, none added
OneEntryPerRecord ==
    /\ Len(feed_entries) = Len(feed_in)
    /\ \A r \in FeedRecords :
          Occurrences(feed_entries, FeedEntry(r)) = Occurrences(feed_in, r)

StagesInOrder == <<"fetch", "extract", "assemble", "persist">>

\* C7: save_rss_feed is invoked at most once, and only after the fetch, the
\* extraction and the assembly of the run completed without raising, in
\* that order; when the fetch fails, no later stage is invoked, no artifact
\* is produced and the run ends in Failed.
C7_PersistLast ==
    /\ saves <= 1
    /\ Len(trace) <= 4
    /\ \A i \in 1..Len(trace) :
          /\ trace[i][1] = StagesInOrder[i]
          /\ i < Len(trace) => trace[i][2] = "ok"
    /\ saves = Cardinality({i \in 1..Len(trace) : trace[i][1] = "persist"})
    /\ artifact # None => saves = 1
    /\ (trace # <<>> /\ trace[1] = <<"fetch", "raise">>) =>
          /\ mpc \in {"main_except", "failed"}
          /\ saves = 0
          /\ artifact = None
          /\ main_articles = <<>> /\ feed = None

\* the page could not be read from an acquired session: the run has failed
\* with the fetch as its only stage
C7_Witness ==
    /\ mpc = "failed"
    /\ driver = "session"
    /\ trace = << <<"fetch", "raise">> >>
    /\ artifact = None

MainDone ==
    /\ mpc = "done"
    /\ artifact # None
    /\ artifact[1].complete

MainFailed ==
    /\ mpc = "failed"
    /\ log[Len(log)] = ErrorFailed

\* C8: every run of main ends, in Done with the artifact written or in
\* Failed with the failure logged: an exception of any stage is caught at
\* the top level and does not leave main.
C8_Terminates == <>(MainDone \/ MainFailed)

\* the last stage raised and the run ended in Failed
C8_Witness ==
    /\ MainFailed
    /\ Len(trace) = 4
    /\ trace[4] = <<"persist", "raise">>

InMain == mpc \in {"extract", "assemble", "persist", "done", "main_except",
                   "failed", "escaped"}

\* C9: when control is back in main, a session that was acquired has had
\* driver.quit called exactly once, on the normal return and on every
\* exception path; without a session driver.quit is not called.
C9_SessionReleased ==
    /\ quit_calls <= 1
    /\ quit_calls = 1 => driver = "session"
    /\ InMain => quit_calls = (IF driver = "session" THEN 1 ELSE 0)

\* an exception after the session was acquired has reached main, and the
\* session was quit
C9_Witness ==
    /\ mpc = "main_except"
    /\ driver = "session"
    /\ quit_calls = 1
    /\ \E i \in 1..Len(log) : log[i] = ErrorFetching

====
